---- MODULE Spec2Model ----
(***************************************************************************)
(* dsp-tool: the create-production-graph command.                          *)
(*                                                                         *)
(* One run of CreateProductionGraph::exec is modelled as a state machine:  *)
(* load the dataset, parse the item tokens, parse the ignore tokens,       *)
(* resolve the dependencies of every starting item (the recursion of       *)
(* resolve_item_dependencies is an explicit stack of frames) and print the *)
(* graph.  Strings are sequences of one-character strings, so that         *)
(* to_lowercase, usize::from_str and format! are computed, not assumed.    *)
(***************************************************************************)
EXTENDS Integers, Sequences, FiniteSets, TLC

VARIABLES
    file,          \* content of the file at data_path, or why it cannot be loaded
    arg_items,     \* CreateProductionGraph.items   (--items tokens)
    arg_ignore,    \* CreateProductionGraph.ignore  (--ignore tokens)
    resolve_deps,  \* CreateProductionGraph.resolve_deps
    pc,            \* position of the run inside exec
    data,          \* the loaded Data, NoData before the load
    call,          \* arguments of the last parse_ids call
    result,        \* what the last parse_ids call returned
    items,         \* exec: let mut items  (BTreeSet<ItemId>)
    ignore,        \* exec: let ignore     (BTreeSet<usize>)
    recipes,       \* exec: let mut recipes (BTreeSet<RecipeId>)
    pending,       \* what is left of `for item in items.clone()`
    stack,         \* active calls of resolve_item_dependencies, innermost last
    lookups,       \* item identifiers handed to data.as_output.get so far
    expansions,    \* recipe identifiers whose inputs were iterated, in order
    steps,         \* loop iterations and returns of the resolver so far
    to_print,      \* what is left of `for rid in &recipes`
    out,           \* what was printed to standard output
    err,           \* the error exec returned (main logs it), None otherwise
    first          \* result of the preceding run, when the command is run twice

vars == <<file, arg_items, arg_ignore, resolve_deps, pc, data, call, result,
          items, ignore, recipes, pending, stack, lookups, expansions, steps,
          to_print, out, err, first>>

None == [kind |-> "None"]
NoData == [kind |-> "NoData"]

(***************************************************************************)
(* Bounds of the model.                                                    *)
(***************************************************************************)
MaxItemTokens == 2
MaxIgnoreTokens == 1
MaxTokens == 2

(***************************************************************************)
(* Strings.                                                                *)
(***************************************************************************)
Upper == <<"A", "B", "C", "D", "E", "F", "G", "H", "I", "J", "K", "L", "M",
           "N", "O", "P", "Q", "R", "S", "T", "U", "V", "W", "X", "Y", "Z">>
Lower == <<"a", "b", "c", "d", "e", "f", "g", "h", "i", "j", "k", "l", "m",
           "n", "o", "p", "q", "r", "s", "t", "u", "v", "w", "x", "y", "z">>
Digits == <<"0", "1", "2", "3", "4", "5", "6", "7", "8", "9">>

\* char::to_lowercase on the ASCII range
LowerChar(c) ==
    IF \E i \in 1..Len(Upper) : Upper[i] = c
    THEN Lower[CHOOSE i \in 1..Len(Upper) : Upper[i] = c]
    ELSE c

\* str::to_lowercase
to_lowercase(s) == [i \in 1..Len(s) |-> LowerChar(s[i])]

IsDigit(c) == \E i \in 1..Len(Digits) : Digits[i] = c
DigitVal(c) == (CHOOSE i \in 1..Len(Digits) : Digits[i] = c) - 1

RECURSIVE DecimalValue(_, _)
DecimalValue(s, acc) ==
    IF s = <<>> THEN acc ELSE DecimalValue(Tail(s), acc * 10 + DigitVal(Head(s)))

\* usize::from_str: an optional "+", then one or more decimal digits.  The
\* tokens of the model are far shorter than the 20 digits that overflow usize.
usize_from_str(s) ==
    LET digits == IF s # <<>> /\ Head(s) = "+" THEN Tail(s) ELSE s
    IN  IF digits = <<>> \/ \E i \in 1..Len(digits) : ~IsDigit(digits[i])
        THEN [ok |-> FALSE]
        ELSE [ok |-> TRUE, val |-> DecimalValue(digits, 0)]

\* u occurs in s as a contiguous run of characters
Contains(s, u) ==
    \E i \in 0..(Len(s) - Len(u)) : \A j \in 1..Len(u) : s[i + j] = u[j]

KW_all == <<"a", "l", "l">>
KW_explicit == <<"e", "x", "p", "l", "i", "c", "i", "t">>
KW_advanced == <<"a", "d", "v", "a", "n", "c", "e", "d">>
KW_material == <<"m", "a", "t", "e", "r", "i", "a", "l">>
KW_matrix == <<"m", "a", "t", "r", "i", "x">>
KW_product == <<"p", "r", "o", "d", "u", "c", "t">>
KW_production == <<"p", "r", "o", "d", "u", "c", "t", "i", "o", "n">>
KW_resource == <<"r", "e", "s", "o", "u", "r", "c", "e">>
KW_component == <<"c", "o", "m", "p", "o", "n", "e", "n", "t">>
KW_logistics == <<"l", "o", "g", "i", "s", "t", "i", "c", "s">>

\* the literal of the format! in parse_ids
InvalidPrefix == <<"I", "n", "v", "a", "l", "i", "d", " ", "o", "r", " ", "u", "n", "k", "n", "o", "w", "n", " ", "i", "t", "e", "m", ":", " ">>

ADVANCED_RECIPES == <<
    <<"C", "a", "s", "i", "m", "i", "r", " ", "C", "r", "y", "s", "t", "a", "l", " ", "(", "A", "d", "v", "a", "n", "c", "e", "d", ")">>,
    <<"O", "r", "g", "a", "n", "i", "c", " ", "C", "r", "y", "s", "t", "a", "l", " ", "(", "O", "r", "i", "g", "i", "n", "a", "l", ")">>,
    <<"C", "r", "y", "s", "t", "a", "l", " ", "S", "i", "l", "i", "c", "o", "n", " ", "(", "A", "d", "v", "a", "n", "c", "e", "d", ")">>,
    <<"P", "h", "o", "t", "o", "n", " ", "C", "o", "m", "b", "i", "n", "e", "r", " ", "(", "A", "d", "v", "a", "n", "c", "e", "d", ")">>,
    <<"S", "p", "a", "c", "e", " ", "W", "a", "r", "p", "e", "r", " ", "(", "A", "d", "v", "a", "n", "c", "e", "d", ")">>,
    <<"P", "a", "r", "t", "i", "c", "l", "e", " ", "C", "o", "n", "t", "a", "i", "n", "e", "r", " ", "(", "A", "d", "v", "a", "n", "c", "e", "d", ")">>,
    <<"G", "r", "a", "p", "h", "e", "n", "e", " ", "(", "A", "d", "v", "a", "n", "c", "e", "d", ")">>,
    <<"C", "a", "r", "b", "o", "n", " ", "N", "a", "n", "o", "t", "u", "b", "e", " ", "(", "A", "d", "v", "a", "n", "c", "e", "d", ")">>,
    <<"D", "i", "a", "m", "o", "n", "d", " ", "(", "A", "d", "v", "a", "n", "c", "e", "d", ")">> >>

(***************************************************************************)
(* Dataset files.  An ItemAmount is [id, amount]; a recipe's inputs and    *)
(* outputs are sequences of them.                                          *)
(***************************************************************************)
N_Ore == <<"O", "r", "e">>
N_Ingot == <<"I", "n", "g", "o", "t">>
N_Gear == <<"G", "e", "a", "r">>
N_Melt == <<"M", "e", "l", "t">>
N_Press == <<"P", "r", "e", "s", "s">>
N_Diamond == ADVANCED_RECIPES[9]

ItemAmount(id, amount) == [id |-> id, amount |-> amount]

\* Two recipes that consume each other's product.  Recipe 1 carries the name
\* of item 2, and the recipe identifiers are item identifiers too.
CycleFile ==
    [items |-> (1 :> [name |-> N_Ore, type_ |-> "Material"])
            @@ (2 :> [name |-> N_Ingot, type_ |-> "Component"]),
     recipes |-> (1 :> [name |-> N_Ingot, seconds |-> 1, explicit |-> TRUE,
                        inputs |-> <<ItemAmount(1, 1)>>,
                        outputs |-> <<ItemAmount(2, 1)>>])
              @@ (2 :> [name |-> N_Melt, seconds |-> 2, explicit |-> FALSE,
                        inputs |-> <<ItemAmount(2, 1)>>,
                        outputs |-> <<ItemAmount(1, 1)>>])]

\* Item 3 has two producers (5 lists it twice among its outputs), both consume
\* item 2, whose producer 4 consumes item 1, which the item table lacks.
\* Recipe 4 is named like the keyword "component".
DiamondFile ==
    [items |-> (2 :> [name |-> N_Ingot, type_ |-> "Component"])
            @@ (3 :> [name |-> N_Gear, type_ |-> "Product"]),
     recipes |-> (4 :> [name |-> KW_component, seconds |-> 1, explicit |-> FALSE,
                        inputs |-> <<ItemAmount(1, 1)>>,
                        outputs |-> <<ItemAmount(2, 1)>>])
              @@ (5 :> [name |-> N_Diamond, seconds |-> 4, explicit |-> TRUE,
                        inputs |-> <<ItemAmount(2, 2), ItemAmount(1, 1)>>,
                        outputs |-> <<ItemAmount(3, 1), ItemAmount(3, 1)>>])
              @@ (6 :> [name |-> N_Press, seconds |-> 2, explicit |-> FALSE,
                        inputs |-> <<ItemAmount(2, 1)>>,
                        outputs |-> <<ItemAmount(3, 1)>>])]

Datasets == {CycleFile, DiamondFile}
Unreadable == [kind |-> "Unreadable"]   \* read_to_string fails
Malformed == [kind |-> "Malformed"]     \* the Lua chunk does not evaluate to a Data
Files == Datasets \cup {Unreadable, Malformed}

(***************************************************************************)
(* Data::from_lua.  A HashMap iterates in an order the program does not    *)
(* choose: item_order and recipe_order are the orders of the two maps of   *)
(* this Data, any permutation of their keys.                               *)
(***************************************************************************)
Perms(S) ==
    {p \in [1..Cardinality(S) -> S] : \A i, j \in DOMAIN p : i # j => p[i] # p[j]}

RECURSIVE Ids(_)
Ids(amounts) ==
    IF amounts = <<>> THEN <<>> ELSE <<Head(amounts).id>> \o Ids(Tail(amounts))

\* recipes.iter().flat_map(|(rid, r)| r.outputs.iter().map(|i| (i.id, *rid)))
RECURSIVE OutputPairs(_, _)
OutputPairs(rs, order) ==
    IF order = <<>> THEN <<>>
    ELSE LET rid == Head(order)
             ids == Ids(rs[rid].outputs)
         IN  [k \in 1..Len(ids) |-> [iid |-> ids[k], rid |-> rid]]
             \o OutputPairs(rs, Tail(order))

RECURSIVE RidsOf(_, _)
RidsOf(pairs, iid) ==
    IF pairs = <<>> THEN <<>>
    ELSE (IF Head(pairs).iid = iid THEN <<Head(pairs).rid>> ELSE <<>>)
         \o RidsOf(Tail(pairs), iid)

\* as_output.entry(iid).or_default().push(rid)
AsOutput(rs, order) ==
    LET pairs == OutputPairs(rs, order)
    IN  [iid \in {pairs[k].iid : k \in 1..Len(pairs)} |-> RidsOf(pairs, iid)]

\* collect() into a HashMap<String, Id>: a later entry replaces an earlier one
ByName(table, order) ==
    [n \in {table[id].name : id \in DOMAIN table} |->
        order[CHOOSE k \in 1..Len(order) :
                /\ table[order[k]].name = n
                /\ \A l \in (k + 1)..Len(order) : table[order[l]].name # n]]

from_lua(f, item_order, recipe_order) ==
    [items |-> f.items,
     recipes |-> f.recipes,
     item_order |-> item_order,
     recipe_order |-> recipe_order,
     as_output |-> AsOutput(f.recipes, recipe_order),
     item_by_name |-> ByName(f.items, item_order),
     recipes_by_name |-> ByName(f.recipes, recipe_order)]

(***************************************************************************)
(* parse_ids.                                                              *)
(***************************************************************************)
Ok(ids) == [ok |-> TRUE, ret |-> ids]
Custom(msg) == [ok |-> FALSE, err |-> [kind |-> "Custom", msg |-> msg]]

NoType == "None"

\* the arms of the match that name an ItemType
ItemTypeOf(s) ==
    CASE s = KW_material -> "Material"
      [] s = KW_matrix -> "Matrix"
      [] s = KW_product -> "Product"
      [] s = KW_production -> "Production"
      [] s = KW_resource -> "Resource"
      [] s = KW_component -> "Component"
      [] s = KW_logistics -> "Logistics"
      [] OTHER -> NoType

\* data.recipes.iter().filter_map(.. if r.explicit ..)
ExplicitRecipes(d) ==
    LET IsExplicit(rid) == d.recipes[rid].explicit
    IN  SelectSeq(d.recipe_order, IsExplicit)

\* ADVANCED_RECIPES.iter().filter_map(|name| data.recipes_by_name.get(*name))
RECURSIVE AdvancedRecipes(_, _)
AdvancedRecipes(d, names) ==
    IF names = <<>> THEN <<>>
    ELSE (IF Head(names) \in DOMAIN d.recipes_by_name
          THEN <<d.recipes_by_name[Head(names)]>> ELSE <<>>)
         \o AdvancedRecipes(d, Tail(names))

\* data.items.iter().filter_map(.. if i.type_ == item_type ..)
ItemsOfType(d, item_type) ==
    LET HasType(iid) == d.items[iid].type_ = item_type
    IN  SelectSeq(d.item_order, HasType)

\* the error of the last match arm
InvalidItem(s) == Custom(InvalidPrefix \o s)

\* the else branch of the loop body: the token lower-cased, as a keyword
Keyword(d, item, items_only) ==
    LET s == to_lowercase(item)
    IN  IF s = KW_all
        THEN Ok(d.item_order \o (IF ~items_only THEN d.recipe_order ELSE <<>>))
        ELSE IF s = KW_explicit /\ ~items_only
        THEN Ok(ExplicitRecipes(d))
        ELSE IF s = KW_advanced /\ ~items_only
        THEN Ok(AdvancedRecipes(d, ADVANCED_RECIPES))
        ELSE IF ItemTypeOf(s) # NoType
        THEN Ok(ItemsOfType(d, ItemTypeOf(s)))
        ELSE InvalidItem(s)

\* ParseToken with the recipe names consulted before the item names
ParseToken_RecipeFirst(d, item, items_only) ==
    LET n == usize_from_str(item)
    IN  IF n.ok
        THEN Ok(<<n.val>>)
        ELSE IF item \in DOMAIN d.recipes_by_name
        THEN Ok(IF ~items_only THEN <<d.recipes_by_name[item]>> ELSE <<>>)
        ELSE IF item \in DOMAIN d.item_by_name
        THEN Ok(<<d.item_by_name[item]>>)
        ELSE Keyword(d, item, items_only)

\* one iteration of `for item in items`: what it appends to ret, or the error
ParseToken(d, item, items_only) ==
    LET n == usize_from_str(item)
    IN  IF n.ok
        THEN Ok(<<n.val>>)
        ELSE IF item \in DOMAIN d.item_by_name
        THEN Ok(<<d.item_by_name[item]>>)
        ELSE IF item \in DOMAIN d.recipes_by_name
        THEN Ok(IF ~items_only THEN <<d.recipes_by_name[item]>> ELSE <<>>)
        ELSE Keyword(d, item, items_only)

RECURSIVE ParseLoop(_, _, _, _)
ParseLoop(d, tokens, items_only, ret) ==
    IF tokens = <<>> THEN Ok(ret)
    ELSE LET r == ParseToken(d, Head(tokens), items_only)
         IN  IF r.ok
             THEN ParseLoop(d, Tail(tokens), items_only, ret \o r.ret)
             ELSE r

parse_ids(d, tokens, items_only) == ParseLoop(d, tokens, items_only, <<>>)

Range(s) == {s[k] : k \in 1..Len(s)}

(***************************************************************************)
(* Command lines.                                                          *)
(***************************************************************************)
T_2 == <<"2">>
T_3 == <<"3">>
T_4 == <<"4">>
T_plus3 == <<"+", "3">>
T_All == <<"A", "l", "l">>
T_Explicit == <<"E", "x", "p", "l", "i", "c", "i", "t">>
T_ADVANCED == <<"A", "D", "V", "A", "N", "C", "E", "D">>
T_Product == <<"P", "r", "o", "d", "u", "c", "t">>
T_Bogus == <<"B", "o", "g", "u", "s">>
T_ingot == <<"i", "n", "g", "o", "t">>
T_x2 == <<"x", "2">>

ItemTokens == {T_2, T_3, KW_all, T_Bogus}
IgnoreTokens == {T_2, T_4, KW_explicit, T_Bogus}
ParseTokens ==
    {T_2, T_plus3, T_x2, N_Ingot, T_ingot, N_Melt, N_Diamond, KW_component,
     T_All, T_Explicit, T_ADVANCED, T_Product, KW_material, T_Bogus}

SeqsUpTo(S, n) == UNION {[1..k -> S] : k \in 0..n}

(***************************************************************************)
(* resolve_item_dependencies: a frame of the call stack.                   *)
(***************************************************************************)
\* AsOutputGet that stops at the first producer
AsOutputGet_First(d, iid) ==
    IF iid \in DOMAIN d.as_output THEN <<Head(d.as_output[iid])>> ELSE <<>>

\* data.as_output.get(&iid): the recipes the `for rid in rids` loop will visit
AsOutputGet(d, iid) ==
    IF iid \in DOMAIN d.as_output THEN d.as_output[iid] ELSE <<>>

Frame(d, iid, deps) ==
    [iid |-> iid, rids |-> AsOutputGet(d, iid), inputs |-> <<>>, resolve_deps |-> deps]

\* ShouldExpand without the exclusion test
ShouldExpand_NoExclude(exclude, rs, rid) == rid \notin rs

\* ShouldExpand without the test that the insertion is new
ShouldExpand_NoInsert(exclude, rs, rid) == rid \notin exclude

\* !exclude.contains(&rid.0) && recipes.insert(*rid)
ShouldExpand(exclude, rs, rid) == rid \notin exclude /\ rid \notin rs

\* ShouldAdd without the exclusion test
ShouldAdd_NoExclude(exclude, iid) == TRUE

\* !exclude.contains(&iid.0)
ShouldAdd(exclude, iid) == iid \notin exclude

\* data.recipes.get(rid) and its inputs
InputsOf(d, rid) ==
    IF rid \in DOMAIN d.recipes THEN d.recipes[rid].inputs ELSE <<>>

\* a BTreeSet iterates in ascending order
RECURSIVE Ascending(_)
Ascending(S) ==
    IF S = {} THEN <<>>
    ELSE LET m == CHOOSE x \in S : \A y \in S : x <= y
         IN  <<m>> \o Ascending(S \ {m})

Top == stack[Len(stack)]
SetTop(f) == [stack EXCEPT ![Len(stack)] = f]

(***************************************************************************)
(* The graph printed by exec, one element per group of println! calls.     *)
(***************************************************************************)
RECURSIVE DecimalDigits(_)
DecimalDigits(n) ==
    IF n < 10 THEN <<Digits[n + 1]>>
    ELSE DecimalDigits(n \div 10) \o <<Digits[(n % 10) + 1]>>

\* Display of a usize
to_string(n) == DecimalDigits(n)

Header == [kind |-> "header"]
Footer == [kind |-> "footer"]

RECURSIVE InputEdges(_, _, _)
InputEdges(d, rid, amounts) ==
    IF amounts = <<>> THEN <<>>
    ELSE LET i == Head(amounts)
         IN  (IF i.id \in DOMAIN d.items
              THEN <<[kind |-> "input", from |-> d.items[i.id].name,
                      to |-> to_string(rid), name |-> i.amount]>>
              ELSE <<>>)
             \o InputEdges(d, rid, Tail(amounts))

RECURSIVE OutputEdges(_, _, _)
OutputEdges(d, rid, amounts) ==
    IF amounts = <<>> THEN <<>>
    ELSE LET o == Head(amounts)
         IN  (IF o.id \in DOMAIN d.items
              THEN <<[kind |-> "output", from |-> to_string(rid),
                      to |-> d.items[o.id].name, name |-> o.amount]>>
              ELSE <<>>)
             \o OutputEdges(d, rid, Tail(amounts))

\* RecipeLines without the loop over the outputs
RecipeLines_NoOutputs(d, rid) ==
    IF rid \in DOMAIN d.recipes
    THEN <<[kind |-> "node", id |-> to_string(rid),
            comment |-> d.recipes[rid].name, label |-> d.recipes[rid].seconds]>>
         \o InputEdges(d, rid, d.recipes[rid].inputs)
    ELSE <<>>

\* the body of `for rid in &recipes`
RecipeLines(d, rid) ==
    IF rid \in DOMAIN d.recipes
    THEN <<[kind |-> "node", id |-> to_string(rid),
            comment |-> d.recipes[rid].name, label |-> d.recipes[rid].seconds]>>
         \o InputEdges(d, rid, d.recipes[rid].inputs)
         \o OutputEdges(d, rid, d.recipes[rid].outputs)
    ELSE <<>>

(***************************************************************************)
(* CreateProductionGraph::exec.                                            *)
(***************************************************************************)
Init ==
    /\ file \in Files
    /\ arg_items \in SeqsUpTo(ItemTokens, MaxItemTokens)
    /\ arg_ignore \in SeqsUpTo(IgnoreTokens, MaxIgnoreTokens)
    /\ resolve_deps \in BOOLEAN
    /\ pc = "load"
    /\ data = NoData
    /\ call = None
    /\ result = None
    /\ items = {}
    /\ ignore = {}
    /\ recipes = {}
    /\ pending = <<>>
    /\ stack = <<>>
    /\ lookups = {}
    /\ expansions = <<>>
    /\ steps = 0
    /\ to_print = <<>>
    /\ out = <<>>
    /\ err = None
    /\ first = None

\* read_to_string(data_path)? or the evaluation of the chunk fails
LoadFails ==
    /\ pc = "load"
    /\ file \notin Datasets
    /\ err' = [kind |-> IF file = Unreadable THEN "IoError" ELSE "LuaError"]
    /\ pc' = "failed"
    /\ UNCHANGED <<file, arg_items, arg_ignore, resolve_deps, data, call, result,
                   items, ignore, recipes, pending, stack, lookups, expansions,
                   steps, to_print, out, first>>

Load ==
    /\ pc = "load"
    /\ file \in Datasets
    /\ \E io \in Perms(DOMAIN file.items), ro \in Perms(DOMAIN file.recipes) :
          data' = from_lua(file, io, ro)
    /\ pc' = "parse_items"
    /\ UNCHANGED <<file, arg_items, arg_ignore, resolve_deps, call, result,
                   items, ignore, recipes, pending, stack, lookups, expansions,
                   steps, to_print, out, err, first>>

\* let mut items = parse_ids(&data, &items, true)? ... collect::<BTreeSet<_>>()
ParseItems ==
    /\ pc = "parse_items"
    /\ LET r == parse_ids(data, arg_items, TRUE)
       IN  /\ call' = [items |-> arg_items, items_only |-> TRUE]
           /\ result' = r
           /\ IF r.ok
              THEN /\ items' = Range(r.ret)
                   /\ pc' = "parse_ignore"
                   /\ err' = err
              ELSE /\ items' = items
                   /\ pc' = "failed"
                   /\ err' = r.err
    /\ UNCHANGED <<file, arg_items, arg_ignore, resolve_deps, data, ignore,
                   recipes, pending, stack, lookups, expansions, steps, to_print,
                   out, first>>

\* let ignore = parse_ids(&data, &ignore, false)? ... collect::<BTreeSet<_>>(),
\* then the new recipe set and the clone of items the for loop iterates
ParseIgnore ==
    /\ pc = "parse_ignore"
    /\ LET r == parse_ids(data, arg_ignore, FALSE)
       IN  /\ call' = [items |-> arg_ignore, items_only |-> FALSE]
           /\ result' = r
           /\ IF r.ok
              THEN /\ ignore' = Range(r.ret)
                   /\ pending' = Ascending(items)
                   /\ pc' = "resolve"
                   /\ err' = err
              ELSE /\ ignore' = ignore
                   /\ pending' = pending
                   /\ pc' = "failed"
                   /\ err' = r.err
    /\ recipes' = {}
    /\ UNCHANGED <<file, arg_items, arg_ignore, resolve_deps, data, items, stack,
                   lookups, expansions, steps, to_print, out, first>>

\* for item in items.clone() { resolve_item_dependencies(.., item, resolve_deps) }
Call ==
    /\ pc = "resolve"
    /\ stack = <<>>
    /\ pending # <<>>
    /\ stack' = <<Frame(data, Head(pending), resolve_deps)>>
    /\ lookups' = lookups \cup {Head(pending)}
    /\ pending' = Tail(pending)
    /\ UNCHANGED <<file, arg_items, arg_ignore, resolve_deps, pc, data, call,
                   result, items, ignore, recipes, expansions, steps, to_print,
                   out, err, first>>

\* for rid in rids: the exclusion test, recipes.insert and data.recipes.get
NextRecipe ==
    /\ pc = "resolve"
    /\ stack # <<>>
    /\ Top.inputs = <<>>
    /\ Top.rids # <<>>
    /\ LET rid == Head(Top.rids)
       IN  IF ShouldExpand(ignore, recipes, rid)
           THEN /\ recipes' = recipes \cup {rid}
                /\ expansions' = Append(expansions, rid)
                /\ stack' = SetTop([Top EXCEPT !.rids = Tail(@),
                                               !.inputs = InputsOf(data, rid)])
           ELSE /\ recipes' = recipes
                /\ expansions' = expansions
                /\ stack' = SetTop([Top EXCEPT !.rids = Tail(@)])
    /\ steps' = steps + 1
    /\ UNCHANGED <<file, arg_items, arg_ignore, resolve_deps, pc, data, call,
                   result, items, ignore, pending, lookups, to_print, out, err,
                   first>>

\* Descend when the flag is not consulted
Descend_Always(stk, d, iid, deps) == Append(stk, Frame(d, iid, TRUE))

\* Descend when the recursive call is returned from the loop: the caller's
\* remaining recipes and inputs are dropped
Descend_Returning(stk, d, iid, deps) ==
    IF deps THEN Append(SubSeq(stk, 1, Len(stk) - 1), Frame(d, iid, TRUE)) ELSE stk

\* the stack once the input has been handled: the recursive call, when made,
\* runs before the caller's next input
Descend(stk, d, iid, deps) ==
    IF deps THEN Append(stk, Frame(d, iid, TRUE)) ELSE stk

\* for input in &r.inputs: the exclusion test, items.insert and the recursion
NextInput ==
    /\ pc = "resolve"
    /\ stack # <<>>
    /\ Top.inputs # <<>>
    /\ LET iid == Head(Top.inputs).id
           rest == SetTop([Top EXCEPT !.inputs = Tail(@)])
       IN  IF ShouldAdd(ignore, iid)
           THEN /\ items' = items \cup {iid}
                /\ stack' = Descend(rest, data, iid, Top.resolve_deps)
                /\ lookups' = lookups \cup {stack'[k].iid : k \in 1..Len(stack')}
           ELSE /\ items' = items
                /\ stack' = rest
                /\ lookups' = lookups
    /\ steps' = steps + 1
    /\ UNCHANGED <<file, arg_items, arg_ignore, resolve_deps, pc, data, call,
                   result, ignore, recipes, pending, expansions, to_print, out,
                   err, first>>

\* both loops of a call are exhausted: it returns to its caller
Return ==
    /\ pc = "resolve"
    /\ stack # <<>>
    /\ Top.inputs = <<>>
    /\ Top.rids = <<>>
    /\ stack' = SubSeq(stack, 1, Len(stack) - 1)
    /\ steps' = steps + 1
    /\ UNCHANGED <<file, arg_items, arg_ignore, resolve_deps, pc, data, call,
                   result, items, ignore, recipes, pending, lookups, expansions,
                   to_print, out, err, first>>

\* ResolutionDone when the loop is left without looking at what is pending
ResolutionDone_Early == pc = "resolve" /\ stack = <<>>

\* the for loop over the starting items has ended
ResolutionDone == pc = "resolve" /\ stack = <<>> /\ pending = <<>>

\* println!("strict digraph DSP {{") .. println!("    /* Recipes */")
EmitHeader ==
    /\ ResolutionDone
    /\ out' = Append(out, Header)
    /\ to_print' = Ascending(recipes)
    /\ pc' = "emit"
    /\ UNCHANGED <<file, arg_items, arg_ignore, resolve_deps, data, call, result,
                   items, ignore, recipes, pending, stack, lookups, expansions,
                   steps, err, first>>

EmitRecipe ==
    /\ pc = "emit"
    /\ to_print # <<>>
    /\ out' = out \o RecipeLines(data, Head(to_print))
    /\ to_print' = Tail(to_print)
    /\ UNCHANGED <<file, arg_items, arg_ignore, resolve_deps, pc, data, call,
                   result, items, ignore, recipes, pending, stack, lookups,
                   expansions, steps, err, first>>

\* println!("}}"); Ok(())
EmitFooter ==
    /\ pc = "emit"
    /\ to_print = <<>>
    /\ out' = Append(out, Footer)
    /\ pc' = "done"
    /\ UNCHANGED <<file, arg_items, arg_ignore, resolve_deps, data, call, result,
                   items, ignore, recipes, pending, stack, lookups, expansions,
                   steps, to_print, err, first>>

Next ==
    \/ LoadFails
    \/ Load
    \/ ParseItems
    \/ ParseIgnore
    \/ Call
    \/ NextRecipe
    \/ NextInput
    \/ Return
    \/ EmitHeader
    \/ EmitRecipe
    \/ EmitFooter

Spec == Init /\ [][Next]_vars

(***************************************************************************)
(* parse_ids alone: any token list, either mode, on a loaded dataset.      *)
(***************************************************************************)
InitParse ==
    /\ file \in Datasets
    /\ data \in {from_lua(file, io, ro) :
                    io \in Perms(DOMAIN file.items), ro \in Perms(DOMAIN file.recipes)}
    /\ call \in [items : SeqsUpTo(ParseTokens, MaxTokens), items_only : BOOLEAN]
    /\ pc = "parse_ids"
    /\ result = None
    /\ arg_items = <<>>
    /\ arg_ignore = <<>>
    /\ resolve_deps = FALSE
    /\ items = {}
    /\ ignore = {}
    /\ recipes = {}
    /\ pending = <<>>
    /\ stack = <<>>
    /\ lookups = {}
    /\ expansions = <<>>
    /\ steps = 0
    /\ to_print = <<>>
    /\ out = <<>>
    /\ err = None
    /\ first = None

ParseIds ==
    /\ pc = "parse_ids"
    /\ result' = parse_ids(data, call.items, call.items_only)
    /\ pc' = "returned"
    /\ UNCHANGED <<file, arg_items, arg_ignore, resolve_deps, data, call, items,
                   ignore, recipes, pending, stack, lookups, expansions, steps,
                   to_print, out, err, first>>

SpecParse == InitParse /\ [][ParseIds]_vars

(***************************************************************************)
(* The command run twice on the same file and tokens: without              *)
(* --resolve-deps, then with it.                                           *)
(***************************************************************************)
InitMono == Init /\ resolve_deps = FALSE

Rerun ==
    /\ pc = "done"
    /\ first = None
    /\ first' = [items |-> items, recipes |-> recipes]
    /\ resolve_deps' = TRUE
    /\ pc' = "load"
    /\ data' = NoData
    /\ call' = None
    /\ result' = None
    /\ items' = {}
    /\ ignore' = {}
    /\ recipes' = {}
    /\ pending' = <<>>
    /\ stack' = <<>>
    /\ lookups' = {}
    /\ expansions' = <<>>
    /\ steps' = 0
    /\ to_print' = <<>>
    /\ out' = <<>>
    /\ UNCHANGED <<file, arg_items, arg_ignore, err>>

NextMono == Next \/ Rerun

SpecMono == InitMono /\ [][NextMono]_vars

(***************************************************************************)
(* Properties.                                                             *)
(***************************************************************************)
\* the exclusion set is known: the run is in or past the resolution
Resolving == pc \in {"resolve", "emit", "done"}
\* the resolution has ended
Resolved == pc \in {"emit", "done"}

\* S: the starting items, as parsed from the item tokens
StartItems == Range(parse_ids(data, arg_items, TRUE).ret)

OutputIds(d, r) == Range(Ids(d.recipes[r].outputs))
InputIds(d, r) == Range(Ids(d.recipes[r].inputs))

\* the recipes outside E that produce an item of I
ProducersOf(d, E, I) ==
    {r \in DOMAIN d.recipes : r \notin E /\ OutputIds(d, r) \cap I # {}}

\* the inputs outside E of the recipes of R
InputsOutside(d, E, R) == UNION {InputIds(d, r) : r \in R} \ E

\* least I with S \subseteq I and InputsOutside(ProducersOf(I)) \subseteq I
RECURSIVE LeastItems(_, _, _, _)
LeastItems(d, S, E, I) ==
    LET J == I \cup S \cup InputsOutside(d, E, ProducersOf(d, E, I))
    IN  IF J = I THEN I ELSE LeastItems(d, S, E, J)

\* C1: the resolved recipe set never holds a recipe identifier of the
\* exclusion set, whatever that recipe produces.
C1_NoExcludedRecipe == Resolving => recipes \cap ignore = {}

\* an excluded recipe produces an item that two resolved recipes consume
C1_Witness ==
    /\ pc = "done"
    /\ \E r \in ignore \cap DOMAIN data.recipes : \E i \in OutputIds(data, r) \cap items :
          Cardinality({q \in recipes : i \in InputIds(data, q)}) >= 2

\* C2 as claimed: no item of the exclusion set is ever in the item set, and
\* as_output is never consulted for one.
C2_NoExcludedItem ==
    Resolving => items \cap ignore = {} /\ lookups \cap ignore = {}

\* C2 amended: the only excluded items in the item set, and the only ones
\* as_output is consulted for, are starting items; the resolver adds none.
C2_OnlyStartItemsExcluded ==
    Resolving => /\ (items \cap ignore) \subseteq StartItems
                 /\ (lookups \cap ignore) \subseteq StartItems

\* a resolved recipe has an excluded input that is no starting item
C2_Witness ==
    /\ pc = "done"
    /\ \E r \in recipes : (InputIds(data, r) \cap ignore) \ StartItems # {}

ExcludedNames == {data.items[i].name : i \in ignore \cap DOMAIN data.items}
ExcludedNodes == {to_string(e) : e \in ignore}
Printed == Range(out)

\* C3 as claimed: the graph has no node of an excluded recipe and no edge
\* whose item end is an excluded item.
C3_NothingExcludedPrinted ==
    \A l \in Printed :
        /\ l.kind = "node" => l.id \notin ExcludedNodes
        /\ l.kind = "input" => l.from \notin ExcludedNames
        /\ l.kind = "output" => l.to \notin ExcludedNames

\* C3 amended: the graph has no node of an excluded recipe and no edge at
\* one; every input and output of a resolved recipe that the item table knows
\* has its edge, excluded or not.
C3_NoExcludedRecipePrinted ==
    /\ \A l \in Printed :
        /\ l.kind = "node" => l.id \notin ExcludedNodes
        /\ l.kind = "input" => l.to \notin ExcludedNodes
        /\ l.kind = "output" => l.from \notin ExcludedNodes
    /\ pc = "done" =>
        \A r \in recipes \cap DOMAIN data.recipes :
            /\ \A i \in InputIds(data, r) \cap DOMAIN data.items :
                  \E l \in Printed : /\ l.kind = "input"
                                     /\ l.from = data.items[i].name
                                     /\ l.to = to_string(r)
            /\ \A o \in OutputIds(data, r) \cap DOMAIN data.items :
                  \E l \in Printed : /\ l.kind = "output"
                                     /\ l.from = to_string(r)
                                     /\ l.to = data.items[o].name

\* the graph is complete, a recipe is excluded, and an edge ends at an
\* excluded item
C3_Witness ==
    /\ pc = "done"
    /\ ignore \cap DOMAIN data.recipes # {}
    /\ \E l \in Printed : l.kind = "output" /\ l.to \in ExcludedNames

RECURSIVE SumInputs(_, _)
SumInputs(d, order) ==
    IF order = <<>> THEN 0
    ELSE Len(d.recipes[Head(order)].inputs) + SumInputs(d, Tail(order))

TotalInputs(d) == SumInputs(d, d.recipe_order)

MaxProducers(d) ==
    LET L == {Len(d.as_output[i]) : i \in DOMAIN d.as_output} \cup {0}
    IN  CHOOSE m \in L : \A x \in L : x <= m

\* a call is made per starting item and at most one per input of a recipe;
\* a call visits each producer of its item once and returns once
StepBound(d, S) ==
    (Cardinality(S) + TotalInputs(d)) * (MaxProducers(d) + 1) + TotalInputs(d)

\* C4: no recipe has its inputs iterated twice in a resolution, and the
\* resolution ends within a number of steps fixed by the dataset and the
\* starting items, also when recipes consume each other's products.
C4_ExpandedOnceAndBounded ==
    Resolving =>
        /\ \A i, j \in 1..Len(expansions) : i # j => expansions[i] # expansions[j]
        /\ steps <= StepBound(data, StartItems)

\* a resolution with recursion over two recipes that consume each other's
\* product has ended
C4_Witness ==
    /\ pc = "done"
    /\ resolve_deps
    /\ \E a, b \in recipes :
          /\ a # b
          /\ OutputIds(data, a) \cap InputIds(data, b) # {}
          /\ OutputIds(data, b) \cap InputIds(data, a) # {}

\* C5: with resolve_deps, the resolution ends with the least item set that
\* holds the starting items and the non-excluded inputs of the resolved
\* recipes, and with exactly the non-excluded producers of those items.
C5_LeastClosedPair ==
    (Resolved /\ resolve_deps) =>
        LET I == LeastItems(data, StartItems, ignore, {})
        IN  items = I /\ recipes = ProducersOf(data, ignore, I)

\* a recursive resolution ended with a recipe that produces no starting item
\* and with two producers of one item
C5_Witness ==
    /\ pc = "done"
    /\ resolve_deps
    /\ \E r \in recipes : OutputIds(data, r) \cap StartItems = {}
    /\ \E a, b \in recipes : a # b /\ OutputIds(data, a) \cap OutputIds(data, b) # {}

\* C6: the recipes and items resolved with resolve_deps include those
\* resolved without it from the same file and tokens.
C6_RecursionAddsOnly ==
    (pc = "done" /\ first # None) =>
        first.recipes \subseteq recipes /\ first.items \subseteq items

\* the second run resolved a recipe the first did not
C6_Witness ==
    pc = "done" /\ first # None /\ first.recipes # recipes /\ first.recipes # {}

\* C7: without resolve_deps the recipes are exactly the non-excluded
\* producers of the starting items and the items are the starting items and
\* the non-excluded inputs of those recipes.
C7_OneLevel ==
    (Resolved /\ ~resolve_deps) =>
        LET R == ProducersOf(data, ignore, StartItems)
        IN  recipes = R /\ items = StartItems \cup InputsOutside(data, ignore, R)

\* an input found in the first layer has a non-excluded producer that was not
\* resolved
C7_Witness ==
    /\ pc = "done"
    /\ ~resolve_deps
    /\ \E i \in items \ StartItems : ProducersOf(data, ignore, {i}) \ recipes # {}

ItemNames(d) == {d.items[i].name : i \in DOMAIN d.items}
RecipeNames(d) == {d.recipes[r].name : r \in DOMAIN d.recipes}

Categories ==
    {<<KW_material, "Material">>, <<KW_matrix, "Matrix">>, <<KW_product, "Product">>,
     <<KW_production, "Production">>, <<KW_resource, "Resource">>,
     <<KW_component, "Component">>, <<KW_logistics, "Logistics">>}

\* the keywords of a mode
KeywordsFor(items_only) ==
    {KW_all} \cup {c[1] : c \in Categories}
    \cup (IF items_only THEN {} ELSE {KW_explicit, KW_advanced})

\* the first rule of the five that applies to a token
RuleOf(d, t, items_only) ==
    IF usize_from_str(t).ok THEN "integer"
    ELSE IF t \in ItemNames(d) THEN "item"
    ELSE IF t \in RecipeNames(d) THEN "recipe"
    ELSE IF to_lowercase(t) \in KeywordsFor(items_only) THEN "keyword"
    ELSE "invalid"

B(p) == IF p THEN 1 ELSE 0

\* how often identifier x is among what a token stands for
Yield(d, t, items_only, x) ==
    LET rule == RuleOf(d, t, items_only)
        k == to_lowercase(t)
    IN  CASE rule = "integer" -> B(x = usize_from_str(t).val)
          [] rule = "item" -> B(x \in DOMAIN d.items /\ d.items[x].name = t)
          [] rule = "recipe" ->
                B(~items_only /\ x \in DOMAIN d.recipes /\ d.recipes[x].name = t)
          [] rule = "keyword" /\ k = KW_all ->
                B(x \in DOMAIN d.items) + B(~items_only /\ x \in DOMAIN d.recipes)
          [] rule = "keyword" /\ k = KW_explicit ->
                B(x \in DOMAIN d.recipes /\ d.recipes[x].explicit)
          [] rule = "keyword" /\ k = KW_advanced ->
                B(x \in DOMAIN d.recipes /\ d.recipes[x].name \in Range(ADVANCED_RECIPES))
          [] rule = "keyword" /\ k \notin {KW_all, KW_explicit, KW_advanced} ->
                B(x \in DOMAIN d.items
                    /\ <<k, d.items[x].type_>> \in Categories)
          [] OTHER -> 0

\* the identifiers a call can return
IdsOf(d, tokens) ==
    DOMAIN d.items \cup DOMAIN d.recipes
    \cup {usize_from_str(tokens[k]).val :
            k \in {j \in 1..Len(tokens) : usize_from_str(tokens[j]).ok}}

RECURSIVE SumOver(_, _, _, _, _)
SumOver(d, t, items_only, X, acc) ==
    IF X = {} THEN acc
    ELSE LET x == CHOOSE y \in X : TRUE
         IN  SumOver(d, t, items_only, X \ {x}, acc + Yield(d, t, items_only, x))

Count(s, x) == Cardinality({k \in 1..Len(s) : s[k] = x})

\* ret is, token after token, what each token stands for
RECURSIVE InTokenOrder(_, _, _, _, _)
InTokenOrder(d, tokens, items_only, X, ret) ==
    IF tokens = <<>> THEN ret = <<>>
    ELSE LET n == SumOver(d, Head(tokens), items_only, X, 0)
         IN  /\ Len(ret) >= n
             /\ \A x \in X :
                   Count(SubSeq(ret, 1, n), x) = Yield(d, Head(tokens), items_only, x)
             /\ InTokenOrder(d, Tail(tokens), items_only, X, SubSeq(ret, n + 1, Len(ret)))

Invalid(k) == RuleOf(data, call.items[k], call.items_only) = "invalid"

\* C8: when a token is no integer, no item or recipe name and no keyword of
\* the mode, parse_ids fails and its message holds the first such token as
\* it was given.
C8_MessageCitesToken ==
    result # None =>
        \A k \in 1..Len(call.items) :
            (Invalid(k) /\ \A j \in 1..(k - 1) : ~Invalid(j)) =>
                /\ ~result.ok
                /\ Contains(result.err.msg, call.items[k])

\* C9: parse_ids returns, in token order and with duplicates, what the first
\* applicable rule gives for each token: the integer, the item of that name,
\* the recipe of that name (nothing in items-only mode), the keyword's
\* expansion; it fails when a token falls under no rule.
C9_FirstRuleApplies ==
    result # None =>
        IF \E k \in 1..Len(call.items) : Invalid(k)
        THEN ~result.ok
        ELSE /\ result.ok
             /\ InTokenOrder(data, call.items, call.items_only,
                             IdsOf(data, call.items), result.ret)

\* a call with two tokens, one the name of an item and of a recipe with
\* different identifiers, has returned identifiers
C9_Witness ==
    /\ result # None
    /\ result.ok
    /\ Len(call.items) = 2
    /\ Len(result.ret) >= 2
    /\ \E k \in 1..2 : \E i \in DOMAIN data.items : \E r \in DOMAIN data.recipes :
          /\ i # r
          /\ data.items[i].name = call.items[k]
          /\ data.recipes[r].name = call.items[k]

\* everything before the emission has succeeded
ReadyToEmit ==
    /\ data # NoData
    /\ call # None
    /\ ~call.items_only
    /\ result.ok
    /\ parse_ids(data, arg_items, TRUE).ok
    /\ stack = <<>>
    /\ pending = <<>>
    /\ err = None

\* the header, a node for every resolved recipe of the dataset, the footer
WholeGraph ==
    /\ Len(out) >= 2
    /\ out[1] = Header
    /\ out[Len(out)] = Footer
    /\ \A r \in recipes \cap DOMAIN data.recipes :
          \E k \in 2..(Len(out) - 1) : out[k].kind = "node" /\ out[k].id = to_string(r)

\* the step the run is about to take is a load or a parse that fails
AboutToFail ==
    \/ pc = "load" /\ file \notin Datasets
    \/ pc = "parse_items" /\ ~parse_ids(data, arg_items, TRUE).ok
    \/ pc = "parse_ignore" /\ ~parse_ids(data, arg_ignore, FALSE).ok

\* a failing load or parse ends the run with an error and an empty output
FailureEnds == AboutToFail => pc' = "failed" /\ err' # None /\ out' = <<>>

\* what the emission has left to do
EmitMeasure == Len(to_print) + B(pc = "emit")

\* a step taken during the emission only appends to the output and leaves
\* less to do
EmitProgress ==
    pc = "emit" =>
        /\ pc' \in {"emit", "done"}
        /\ Len(out') >= Len(out)
        /\ SubSeq(out', 1, Len(out)) = out
        /\ EmitMeasure' < EmitMeasure

\* C10: nothing is printed before the load, both parses and the resolution
\* have succeeded; a failed load or parse ends the run with an error and an
\* empty output; an emission that has begun cannot stop before the footer,
\* every step of it brings the footer nearer, and it ends with the whole
\* graph.
C10_AllOrNothing ==
    /\ [](out # <<>> => ReadyToEmit /\ pc \in {"emit", "done"})
    /\ [][FailureEnds]_vars
    /\ [](pc = "failed" => err # None /\ out = <<>>)
    /\ [](pc = "emit" => ENABLED (EmitRecipe \/ EmitFooter))
    /\ [][EmitProgress]_vars
    /\ [](pc = "done" => WholeGraph)

\* a graph with at least two recipes has been printed
C10_Witness ==
    pc = "done" /\ WholeGraph /\ Cardinality(recipes) >= 2 /\ Len(out) > 4
====
